---------------------------- MODULE Spec2Model ----------------------------
(***************************************************************************)
(* A model of the user controller of the e-commerce backend                *)
(* (src/src/routers/user.router.js): email-verified registration           *)
(* (processRegister, verifyUserAccount), profile update (updateUser) and   *)
(* deletion (deleteUser) over a document store of User records.            *)
(*                                                                         *)
(* A handler is an async function: between two awaited store or transport  *)
(* operations other requests may run.  Each handler is therefore modelled  *)
(* by one action per awaited operation that touches shared state: the      *)
(* action holds the operation and all the synchronous code up to the next  *)
(* such operation (or up to the response).                                 *)
(***************************************************************************)
EXTENDS Integers, Sequences, FiniteSets, TLC

(***************************************************************************)
(* Bounds of the model.                                                    *)
(***************************************************************************)
\* requests that may be suspended at an await at the same time
MaxInFlight == 2
\* requests received in one behaviour
MaxRequests == 4
\* the clock runs from 0 to MaxTime minutes ...
MaxTime == 10
\* ... in steps of TickMinutes
TickMinutes == 5
\* the accounts of the largest listed store, and the largest page and limit
\* a listing asks for
MaxListUsers == 12
MaxPage == 4
MaxLimit == 6

(***************************************************************************)
(* Program constants.                                                      *)
(***************************************************************************)
\* the '10m' lifetime given to createToken, in minutes
TTL == 10
\* ../config/image: the largest accepted upload, in bytes (scaled down)
MAX_FILE_SIZE == 2
\* process.env.JWT_ACTIVATION_KEY
JWT_ACTIVATION_KEY == "activation-key"

(***************************************************************************)
(* Input domains.                                                          *)
(***************************************************************************)
Emails == {"a@x.com", "b@x.com"}

\* req.file is undefined when no image was uploaded
NoFile == [size |-> -1, buffer |-> << >>]
\* multer's memory storage: size is the length of the buffer
File(bytes) == [size |-> Len(bytes), buffer |-> bytes]
UploadFiles == {File(<<77, 97>>), File(<<77, 97, 110>>)}

\* the bodies accepted by validateUserRegistration
RegisterBodies ==
    [name : {"n1"}, email : Emails, phone : {"p1"}, password : {"pw1"},
     address : {"ad1"}]

\* multipart bodies of PUT /:id, every value a string: keys of the
\* whitelist only, and one of its keys beside two that are not in it
UpdateBodies ==
    { [password |-> "pw2", phone |-> "p2", address |-> "ad2"],
      [name |-> "n2", email |-> "b@x.com", isAdmin |-> "true"] }

\* the token of a request body that has none
NoToken == [payload |-> << >>, sig |-> << >>]
\* a falsy value: null, undefined
Null == [null |-> TRUE]

(***************************************************************************)
(* Buffer.toString('base64'): three bytes make four characters of the      *)
(* alphabet, a last group of one or two bytes is padded with '='.          *)
(***************************************************************************)
Alphabet ==
    << "A","B","C","D","E","F","G","H","I","J","K","L","M","N","O","P",
       "Q","R","S","T","U","V","W","X","Y","Z","a","b","c","d","e","f",
       "g","h","i","j","k","l","m","n","o","p","q","r","s","t","u","v",
       "w","x","y","z","0","1","2","3","4","5","6","7","8","9","+","/" >>

Sextet(n) == Alphabet[(n % 64) + 1]

RECURSIVE Base64(_)
Base64(bytes) ==
    IF Len(bytes) = 0 THEN << >>
    ELSE IF Len(bytes) = 1 THEN
        LET n == bytes[1] * 16
        IN  << Sextet(n \div 64), Sextet(n), "=", "=" >>
    ELSE IF Len(bytes) = 2 THEN
        LET n == (bytes[1] * 256 + bytes[2]) * 4
        IN  << Sextet(n \div 4096), Sextet(n \div 64), Sextet(n), "=" >>
    ELSE
        LET n == bytes[1] * 65536 + bytes[2] * 256 + bytes[3]
        IN  << Sextet(n \div 262144), Sextet(n \div 4096), Sextet(n \div 64),
               Sextet(n) >>
            \o Base64(SubSeq(bytes, 4, Len(bytes)))

(***************************************************************************)
(* ../helper/jwt over jsonwebtoken: a token is its payload and a           *)
(* signature over that payload; the payload is the claims with the issue   *)
(* and expiry times added.                                                 *)
(***************************************************************************)
Sign(payload, key) == [key |-> key, digest |-> payload]

createToken(claims, key, ttl, at) ==
    LET payload ==
            [k \in DOMAIN claims \cup {"iat", "exp"} |->
                IF k = "iat" THEN at
                ELSE IF k = "exp" THEN at + ttl
                ELSE claims[k]]
    IN  [payload |-> payload, sig |-> Sign(payload, key)]

\* the decoded payload, or Null for a bad signature or an expired token
verifyToken(token, key, at) ==
    IF token.sig = Sign(token.payload, key) /\ at < token.payload.exp
    THEN token.payload
    ELSE Null

(***************************************************************************)
(* ../models/user.model and ../services/repository: the store.             *)
(***************************************************************************)
\* the image of a record created without one
NoImage == << >>

\* User.exists({ email })
existsByEmail(store, email) == \E u \in store : u.email = email

\* the ids of the stored records
Ids(store) == {u.id : u \in store}

\* the record with this id (getById, when it does not fail)
getById(store, id) == CHOOSE u \in store : u.id = id

\* the document User.create(fields) builds: the fields of the schema are
\* taken from the input, any other key is ignored, absent ones default
NewUser(fields, id) ==
    [id       |-> id,
     name     |-> fields.name,
     email    |-> fields.email,
     phone    |-> fields.phone,
     password |-> fields.password,
     address  |-> fields.address,
     image    |-> IF "image" \in DOMAIN fields THEN fields.image ELSE NoImage,
     isAdmin  |-> IF "isAdmin" \in DOMAIN fields THEN fields.isAdmin
                  ELSE FALSE]

\* the document findByIdAndUpdate(id, updates) leaves: $set of every key
ApplyUpdates(u, updates) ==
    [f \in DOMAIN u |->
        IF f \in DOMAIN updates
        THEN IF f = "isAdmin" THEN updates[f] = "true" ELSE updates[f]
        ELSE u[f]]

VARIABLES
    users,        \* the User collection: a set of documents
    nextId,       \* the next id the store assigns
    tokens,       \* the tokens createToken has issued
    outbox,       \* the activation emails sendEmail has delivered
    deletedImages,\* id -> number of deleteImage calls for its image
    inflight,     \* slot -> the request suspended there, or Idle
    received,     \* the number of requests received so far
    now,          \* the clock, in minutes
    last,         \* the handler step taken last and the responses it sent
    verified      \* history: the tokens a verification has succeeded with

vars ==
    <<users, nextId, tokens, outbox, deletedImages, inflight, received, now,
      last, verified>>

Slots == 1 .. MaxInFlight
Idle == [op |-> "idle"]
UserIds == 1 .. MaxRequests

FreeSlots == {s \in Slots : inflight[s] = Idle}
\* a new suspended request takes the first free slot
FirstFree == CHOOSE s \in FreeSlots : \A r \in FreeSlots : s <= r

\* what a handler step leaves in `last`: the responses sent, in order
Step(op, phase, req, responses) ==
    [op |-> op, phase |-> phase, req |-> req, responses |-> responses]

\* successResponse(res, {statusCode, message, payload})
successResponse(statusCode, payload) ==
    [statusCode |-> statusCode, ok |-> TRUE, payload |-> payload]
\* next(createHttpError(status, message)), answered by the error handler
errorResponse(statusCode) ==
    [statusCode |-> statusCode, ok |-> FALSE, payload |-> << >>]

\* a request arrives
Receive ==
    /\ received < MaxRequests
    /\ received' = received + 1

\* the request is answered before its first await: nothing else changes
Answer(op, req, responses) ==
    /\ last' = Step(op, "check", req, responses)
    /\ UNCHANGED <<users, nextId, tokens, outbox, deletedImages, inflight,
                   now, verified>>

\* the request is suspended at an await with its local variables
Suspend(op, req, locals) ==
    /\ FreeSlots # {}
    /\ inflight' = [inflight EXCEPT ![FirstFree] = locals]
    /\ last' = Step(op, "check", req, << >>)

\* the store outlives the server: an account registered before it started
SeedUser ==
    [id |-> 1, name |-> "n0", email |-> "b@x.com", phone |-> "p0",
     password |-> "pw0", address |-> "ad0", image |-> NoImage,
     isAdmin |-> FALSE]

Init ==
    /\ users = {SeedUser}
    /\ nextId = SeedUser.id + 1
    /\ tokens = {}
    /\ outbox = {}
    /\ deletedImages = [i \in UserIds |-> 0]
    /\ inflight = [s \in Slots |-> Idle]
    /\ received = 0
    /\ now = 0
    /\ last = Step("none", "none", << >>, << >>)
    /\ verified = {}

(***************************************************************************)
(* processRegister, lines 112-122: the three rejections, in order.  An     *)
(* empty result lets the request go on.                                    *)
(***************************************************************************)
registerRejection_FileFirst(userExist, file) ==
    IF file = NoFile THEN <<errorResponse(409)>>
    ELSE IF file.size > MAX_FILE_SIZE THEN <<errorResponse(400)>>
    ELSE IF userExist THEN <<errorResponse(409)>>
    ELSE << >>

registerRejection_NoSizeCheck(userExist, file) ==
    IF userExist THEN <<errorResponse(409)>>
    ELSE IF file = NoFile THEN <<errorResponse(409)>>
    ELSE << >>

registerRejection_AtLimit(userExist, file) ==
    IF userExist THEN <<errorResponse(409)>>
    ELSE IF file = NoFile THEN <<errorResponse(409)>>
    ELSE IF file.size >= MAX_FILE_SIZE THEN <<errorResponse(400)>>
    ELSE << >>

registerRejection(userExist, file) ==
    IF userExist THEN <<errorResponse(409)>>
    ELSE IF file = NoFile THEN <<errorResponse(409)>>
    ELSE IF file.size > MAX_FILE_SIZE THEN <<errorResponse(400)>>
    ELSE << >>

\* line 126: the claims bundled into the token
registerClaims(body, file) ==
    [name |-> body.name, email |-> body.email, phone |-> body.phone,
     password |-> body.password, address |-> body.address,
     imageBufferString |-> Base64(file.buffer)]

(***************************************************************************)
(* processRegister, lines 106-136: the existence check and everything up   *)
(* to the call of sendEmail.                                               *)
(***************************************************************************)
processRegister(body, file) ==
    LET userExist == existsByEmail(users, body.email)
        req == [body |-> body, file |-> file, userExist |-> userExist]
        rejected == registerRejection(userExist, file)
        token == createToken(registerClaims(body, file), JWT_ACTIVATION_KEY,
                             TTL, now)
    IN
    /\ Receive
    /\ IF rejected # << >> THEN Answer("register", req, rejected)
       ELSE /\ Suspend("register", req,
                    [op |-> "register", req |-> req, token |-> token])
            /\ tokens' = tokens \cup {token}
            /\ UNCHANGED <<users, nextId, outbox, deletedImages, now,
                           verified>>

(***************************************************************************)
(* processRegister, lines 137-147: what the handler answers once sendEmail *)
(* has returned (delivered) or thrown.                                     *)
(***************************************************************************)
registerResponses_NoReturn(req, delivered) ==
    IF delivered THEN <<successResponse(200, [name |-> req.body.name])>>
    ELSE <<errorResponse(500),
           successResponse(200, [name |-> req.body.name])>>

registerResponses(req, delivered) ==
    IF delivered THEN <<successResponse(200, [name |-> req.body.name])>>
    ELSE <<errorResponse(500)>>

processRegisterSent(s, delivered) ==
    /\ inflight[s] # Idle
    /\ inflight[s].op = "register"
    /\ LET r == inflight[s]
           req == [body |-> r.req.body, file |-> r.req.file,
                   userExist |-> r.req.userExist, delivered |-> delivered]
       IN
       /\ inflight' = [inflight EXCEPT ![s] = Idle]
       /\ outbox' = IF delivered
                    THEN outbox \cup
                            {[email |-> r.req.body.email, token |-> r.token]}
                    ELSE outbox
       /\ last' = Step("register", "send", req,
                       registerResponses(r.req, delivered))
       /\ UNCHANGED <<users, nextId, tokens, deletedImages, received, now,
                      verified>>

(***************************************************************************)
(* User.create(fields): fails with Conflict when the email is taken,       *)
(* otherwise stores the new document under a fresh id.                     *)
(***************************************************************************)
create(store, fields, id) ==
    IF existsByEmail(store, fields.email)
    THEN [conflict |-> TRUE, store |-> store]
    ELSE [conflict |-> FALSE, store |-> store \cup {NewUser(fields, id)}]

(***************************************************************************)
(* verifyUserAccount, lines 157-167: the three rejections, in order.       *)
(***************************************************************************)
verifyRejection_NoExistenceCheck(token, decoded, store) ==
    IF token = NoToken THEN <<errorResponse(404)>>
    ELSE IF decoded = Null THEN <<errorResponse(401)>>
    ELSE << >>

verifyRejection_NotFound(token, decoded, store) ==
    IF token = NoToken \/ decoded = Null THEN <<errorResponse(404)>>
    ELSE IF existsByEmail(store, decoded.email) THEN <<errorResponse(409)>>
    ELSE << >>

verifyRejection(token, decoded, store) ==
    IF token = NoToken THEN <<errorResponse(404)>>
    ELSE IF decoded = Null THEN <<errorResponse(401)>>
    ELSE IF existsByEmail(store, decoded.email) THEN <<errorResponse(409)>>
    ELSE << >>

(***************************************************************************)
(* verifyUserAccount, lines 153-167: the token checks and the existence    *)
(* check, up to the call of User.create.                                   *)
(***************************************************************************)
verifyUserAccount(token) ==
    LET \* history: the time of the request, and whether its token had
        \* already created a record
        req == [token |-> token, at |-> now, used |-> token \in verified]
        decoded == IF token = NoToken THEN Null
                   ELSE verifyToken(token, JWT_ACTIVATION_KEY, now)
        rejected == verifyRejection(token, decoded, users)
    IN
    /\ Receive
    /\ IF rejected # << >> THEN Answer("verify", req, rejected)
       ELSE /\ Suspend("verify", req,
                    [op |-> "verify", req |-> req, decoded |-> decoded])
            /\ UNCHANGED <<users, nextId, tokens, outbox, deletedImages,
                           now, verified>>

(***************************************************************************)
(* verifyUserAccount, lines 169-178: what the handler answers once         *)
(* User.create has returned the document or thrown Conflict.               *)
(***************************************************************************)
\* the error User.create throws for a taken email
ConflictError == errorResponse(409)

\* the catch block answers every error of the try block with 500
verifyResponses_ServerError(conflict, user) ==
    IF conflict THEN <<errorResponse(500)>>
    ELSE <<successResponse(201, [user |-> user])>>

\* line 177 forwards the error as thrown
verifyResponses(conflict, user) ==
    IF conflict THEN <<ConflictError>>
    ELSE <<successResponse(201, [user |-> user])>>

verifyUserAccountCreate(s) ==
    /\ inflight[s] # Idle
    /\ inflight[s].op = "verify"
    /\ LET r == inflight[s]
           created == create(users, r.decoded, nextId)
       IN
       /\ inflight' = [inflight EXCEPT ![s] = Idle]
       /\ users' = created.store
       /\ nextId' = IF created.conflict THEN nextId ELSE nextId + 1
       /\ verified' = IF created.conflict THEN verified
                      ELSE verified \cup {r.req.token}
       /\ last' = Step("verify", "create", r.req,
                       verifyResponses(created.conflict,
                                       NewUser(r.decoded, nextId)))
       /\ UNCHANGED <<tokens, outbox, deletedImages, received, now>>

(***************************************************************************)
(* updateUser, lines 186-201: the updates built from the body and the      *)
(* uploaded image.                                                         *)
(***************************************************************************)
Whitelist_WithEmail == {"name", "password", "phone", "address", "email"}

Whitelist_WithIsAdmin == {"name", "password", "phone", "address", "isAdmin"}

\* line 189
Whitelist == {"name", "password", "phone", "address"}

\* lines 188-192: the whitelisted keys of the body
Updates(body) ==
    [k \in DOMAIN body \cap Whitelist |-> body[k]]

\* line 200: updates.image = image.buffer.toString('base64')
WithImage(updates, file) ==
    [k \in DOMAIN updates \cup {"image"} |->
        IF k = "image" THEN Base64(file.buffer) ELSE updates[k]]

\* a handler that looks at the image before it looks up the record
updateRejection_SizeFirst(store, id, file) ==
    IF file # NoFile /\ file.size > MAX_FILE_SIZE
    THEN <<errorResponse(400)>>
    ELSE IF id \notin Ids(store) THEN <<errorResponse(404)>>
    ELSE << >>

\* lines 185 and 194-198: the two rejections, in order
updateRejection(store, id, file) ==
    IF id \notin Ids(store) THEN <<errorResponse(404)>>
    ELSE IF file # NoFile /\ file.size > MAX_FILE_SIZE
    THEN <<errorResponse(400)>>
    ELSE << >>

(***************************************************************************)
(* updateUser, lines 181-201: getById, the whitelist and the image check,  *)
(* up to the call of findByIdAndUpdate.                                    *)
(***************************************************************************)
updateUser(id, body, file) ==
    LET req == [id |-> id, body |-> body, file |-> file]
        rejected == updateRejection(users, id, file)
    IN
    /\ Receive
    /\ IF rejected # << >> THEN Answer("update", req, rejected)
       ELSE /\ Suspend("update", req,
                    [op |-> "update", req |-> req,
                     updates |-> IF file = NoFile THEN Updates(body)
                                 ELSE WithImage(Updates(body), file)])
            /\ UNCHANGED <<users, nextId, tokens, outbox, deletedImages,
                           now, verified>>

\* .select(['-password', '-image'])
Stripped(u) == [f \in DOMAIN u \ {"password", "image"} |-> u[f]]

\* a write that inserts the record when the id is absent: an upsert
findByIdAndUpdate_Upsert(store, id, updates) ==
    LET old == IF id \in Ids(store) THEN getById(store, id)
               ELSE NewUser([name |-> "", email |-> "", password |-> "",
                             phone |-> "", address |-> ""], id)
        new == ApplyUpdates(old, updates)
    IN  [updatedUser |-> new, store |-> (store \ {old}) \cup {new}]

\* line 203: User.findByIdAndUpdate(id, updates, updateOption) with
\* updateOption = {new: true, runValidators: true, context: 'query'}: the
\* record after the update, or null, and no record, when the id is absent
findByIdAndUpdate(store, id, updates) ==
    IF id \notin Ids(store)
    THEN [updatedUser |-> Null, store |-> store]
    ELSE LET old == getById(store, id)
             new == ApplyUpdates(old, updates)
         IN  [updatedUser |-> new, store |-> (store \ {old}) \cup {new}]

(***************************************************************************)
(* updateUser, lines 203-213: findByIdAndUpdate(id, updates) and the       *)
(* answer.                                                                 *)
(***************************************************************************)
updateUserWrite(s) ==
    /\ inflight[s] # Idle
    /\ inflight[s].op = "update"
    /\ LET r == inflight[s]
           written == findByIdAndUpdate(users, r.req.id, r.updates)
       IN
       /\ inflight' = [inflight EXCEPT ![s] = Idle]
       /\ users' = written.store
       /\ last' = Step("update", "write", r.req,
                    IF written.updatedUser = Null
                    THEN <<errorResponse(404)>>
                    ELSE <<successResponse(200,
                            [updatedUser |-> Stripped(written.updatedUser)])>>)
       /\ UNCHANGED <<nextId, tokens, outbox, deletedImages, received, now,
                      verified>>

(***************************************************************************)
(* deleteUser, lines 85-88: getById.                                       *)
(***************************************************************************)
\* a handler whose failed lookup is answered as a server error
deleteRejection_ServerError(store, id) ==
    IF id \notin Ids(store) THEN <<errorResponse(500)>> ELSE << >>

\* lines 88 and 101-103: getById fails with NotFound for an absent id
deleteRejection(store, id) ==
    IF id \notin Ids(store) THEN <<errorResponse(404)>> ELSE << >>

deleteUser(id) ==
    LET req == [id |-> id]
        rejected == deleteRejection(users, id)
    IN
    /\ Receive
    /\ IF rejected # << >>
       THEN Answer("delete", req, rejected)
       ELSE /\ Suspend("delete", req,
                    [op |-> "delete", req |-> req,
                     user |-> getById(users, id)])
            /\ UNCHANGED <<users, nextId, tokens, outbox, deletedImages,
                           now, verified>>

\* deleteById(id, User) of ../services/repository: the record it removed.
\* When the id is absent it fails with NotFound; the handler also guards
\* against a null result (line 92), so both outcomes are kept.
deleteById(store, id) ==
    IF id \in Ids(store)
    THEN {[failed |-> FALSE, deletedUser |-> getById(store, id),
           store |-> store \ {getById(store, id)}]}
    ELSE {[failed |-> TRUE, deletedUser |-> Null, store |-> store],
          [failed |-> FALSE, deletedUser |-> Null, store |-> store]}

(***************************************************************************)
(* deleteUser, line 90: await deleteById(id, User).  A failure goes to the *)
(* error handler (lines 101-103); otherwise the handler resumes later with *)
(* deletedUser.                                                            *)
(***************************************************************************)
deleteUserDelete(s) ==
    /\ inflight[s] # Idle
    /\ inflight[s].op = "delete"
    /\ \E o \in deleteById(users, inflight[s].req.id) :
         LET r == inflight[s] IN
         /\ users' = o.store
         /\ IF o.failed THEN
               /\ inflight' = [inflight EXCEPT ![s] = Idle]
               /\ last' = Step("delete", "delete", r.req,
                               <<errorResponse(404)>>)
            ELSE
               /\ inflight' = [inflight EXCEPT ![s] =
                     [op |-> "deleted", req |-> r.req, user |-> r.user,
                      deletedUser |-> o.deletedUser]]
               /\ last' = Step("delete", "delete", r.req, << >>)
    /\ UNCHANGED <<nextId, tokens, outbox, deletedImages, received, now,
                   verified>>

\* a handler that calls deleteImage whatever deleteById returned
deleteImageCalled_Always(deletedUser) == TRUE

\* line 92: if (deletedUser)
deleteImageCalled(deletedUser) == deletedUser # Null

\* a handler that reports the failure of deleteImage
deleteResponses_Reported(imageDeleted) ==
    IF imageDeleted THEN <<successResponse(200, << >>)>>
    ELSE <<errorResponse(500)>>

\* lines 94 and 96-100: deleteImage(userImagePath) is called and not
\* awaited, and ../helper/image does not propagate a failure: the answer
\* does not depend on what became of the image
deleteResponses(imageDeleted) == <<successResponse(200, << >>)>>

(***************************************************************************)
(* deleteUser, lines 92-100: deleteImage(user.image) when deleteById       *)
(* returned a record, and the answer.  imageDeleted is what becomes of the *)
(* image file.                                                             *)
(***************************************************************************)
deleteUserRespond(s, imageDeleted) ==
    /\ inflight[s] # Idle
    /\ inflight[s].op = "deleted"
    /\ LET r == inflight[s]
           called == deleteImageCalled(r.deletedUser)
       IN
       /\ called \/ ~imageDeleted
       /\ inflight' = [inflight EXCEPT ![s] = Idle]
       /\ deletedImages' =
             IF called THEN [deletedImages EXCEPT ![r.req.id] = @ + 1]
             ELSE deletedImages
       /\ last' = Step("delete", "respond",
                       [id |-> r.req.id,
                        userImagePath |-> IF called THEN r.user.image
                                          ELSE Null,
                        imageDeleted |-> imageDeleted],
                       deleteResponses(imageDeleted))
    /\ UNCHANGED <<users, nextId, tokens, outbox, received, now, verified>>

(***************************************************************************)
(* Time passes.                                                            *)
(***************************************************************************)
Tick ==
    /\ now + TickMinutes <= MaxTime
    /\ now' = now + TickMinutes
    /\ last' = Step("tick", "tick", << >>, << >>)
    /\ UNCHANGED <<users, nextId, tokens, outbox, deletedImages, inflight,
                   received, verified>>

(***************************************************************************)
(* What a client may send to POST /verify: nothing, a token it received   *)
(* by email, or a token it altered (another email, a later expiry) under   *)
(* the signature of the original.                                          *)
(***************************************************************************)
Delivered == {m.token : m \in outbox}

Tampered(t) ==
    {[t EXCEPT !.payload.exp = @ + TTL]}
      \cup {[t EXCEPT !.payload.email = e] : e \in Emails \ {t.payload.email}}

VerifyTokens ==
    {NoToken} \cup Delivered \cup UNION {Tampered(t) : t \in Delivered}

\* the ids a client may name: those the store has assigned, and one it has
\* not assigned yet
RequestIds == {i \in UserIds : i <= nextId}

Next ==
    \/ \E body \in RegisterBodies, file \in UploadFiles \cup {NoFile} :
            processRegister(body, file)
    \/ \E s \in Slots, delivered \in BOOLEAN : processRegisterSent(s, delivered)
    \/ \E token \in VerifyTokens : verifyUserAccount(token)
    \/ \E s \in Slots : verifyUserAccountCreate(s)
    \/ \E id \in RequestIds, body \in UpdateBodies,
          file \in UploadFiles \cup {NoFile} : updateUser(id, body, file)
    \/ \E s \in Slots : updateUserWrite(s)
    \/ \E id \in RequestIds : deleteUser(id)
    \/ \E s \in Slots : deleteUserDelete(s)
    \/ \E s \in Slots, imageDeleted \in BOOLEAN :
            deleteUserRespond(s, imageDeleted)
    \/ Tick

Spec == Init /\ [][Next]_vars

TypeOK ==
    /\ nextId \in 1 .. MaxRequests + 1
    /\ Ids(users) \subseteq 1 .. (nextId - 1)
    /\ received \in 0 .. MaxRequests
    /\ now \in 0 .. MaxTime
    /\ Delivered \subseteq tokens
    /\ verified \subseteq tokens

(***************************************************************************)
(* GET /, getUsers (lines 27-65).  Here a string is the sequence of its    *)
(* characters, so that the regular expression of line 34 can be matched.   *)
(***************************************************************************)
DigitChars == <<"0", "1", "2", "3", "4", "5", "6", "7", "8", "9">>

\* the decimal numeral of n, as a client writes it in the query string
Numeral(n) ==
    IF n < 10 THEN <<DigitChars[n + 1]>>
    ELSE <<DigitChars[(n \div 10) + 1], DigitChars[(n % 10) + 1]>>

DigitValue(c) == (CHOOSE i \in 1 .. 10 : DigitChars[i] = c) - 1

IsDigit(c) == \E i \in 1 .. 10 : DigitChars[i] = c

RECURSIVE DecimalValue(_)
DecimalValue(q) ==
    IF q = << >> THEN 0
    ELSE 10 * DecimalValue(SubSeq(q, 1, Len(q) - 1)) + DigitValue(q[Len(q)])

\* lines 30-31: Number(q) || default.  An absent parameter and a string
\* that is no number give NaN, the empty string and "0" give 0: all falsy.
NumberOr(q, default) ==
    LET n == IF \A i \in 1 .. Len(q) : IsDigit(q[i])
             THEN DecimalValue(q) ELSE 0
    IN  IF n = 0 THEN default ELSE n

\* the flag 'i' of line 34: letters compare by their lower case
Lower(c) ==
    CASE c = "J" -> "j"
      [] c = "O" -> "o"
      [] c = "A" -> "a"
      [] c = "Z" -> "z"
      [] OTHER -> c

\* line 34: new RegExp(`.*${search}.*`, 'i') tested against str.  The term
\* is spliced into the pattern as it is: a letter, a digit or "@" stands
\* for itself, "." for any character.
RegExpTest(search, str) ==
    \E k \in 0 .. (Len(str) - Len(search)) :
        \A i \in 1 .. Len(search) :
            \/ search[i] = "."
            \/ Lower(search[i]) = Lower(str[k + i])

\* lines 35-38: the documents the filter selects
Filter(store, search) ==
    {u \in store : /\ u.isAdmin # TRUE
                   /\ \/ RegExpTest(search, u.name)
                      \/ RegExpTest(search, u.email)
                      \/ RegExpTest(search, u.phone)}

\* line 32: options = { password: 0 }
Projected(u) == [f \in DOMAIN u \ {"password"} |-> u[f]]

\* the documents of a query in the order the store returns them
NaturalOrder(S) ==
    [i \in 1 .. Cardinality(S) |->
        CHOOSE u \in S : Cardinality({v \in S : v.id < u.id}) = i - 1]

\* a listing that skips page * limit documents
Skip_FromPage(page, limit) == page * limit

\* line 42: .skip((page - 1) * limit)
Skip(page, limit) == (page - 1) * limit

\* lines 40-42: User.find(filter, options).limit(limit).skip(skip)
find(store, search, limit, skip) ==
    LET all == NaturalOrder(Filter(store, search))
        rest == SubSeq(all, skip + 1, Len(all))
        page == SubSeq(rest, 1, IF limit < Len(rest) THEN limit ELSE Len(rest))
    IN  [i \in 1 .. Len(page) |-> Projected(page[i])]

\* line 43: User.countDocuments(filter)
countDocuments(store, search) == Cardinality(Filter(store, search))

\* Math.ceil(count / limit)
Ceil(count, limit) ==
    IF count % limit = 0 THEN count \div limit ELSE (count \div limit) + 1

\* lines 54-59; a page number that may be null is the set of its values
pagination(count, page, limit) ==
    [totalPages   |-> Ceil(count, limit),
     currentPage  |-> page,
     previousPage |-> IF page - 1 > 0 THEN {page - 1} ELSE {},
     nextPage     |-> IF page + 1 <= Ceil(count, limit) THEN {page + 1}
                      ELSE {}]

(***************************************************************************)
(* getUsers, lines 27-42: the query parameters, the filter and find.       *)
(***************************************************************************)
getUsers(query) ==
    LET search == query.search
        page == NumberOr(query.page, 1)
        limit == NumberOr(query.limit, 5)
    IN
    /\ Receive
    /\ Suspend("list", query,
               [op |-> "list", req |-> query, search |-> search,
                page |-> page, limit |-> limit,
                users |-> find(users, search, limit, Skip(page, limit))])
    /\ UNCHANGED <<users, nextId, tokens, outbox, deletedImages, now,
                   verified>>

(***************************************************************************)
(* getUsers, lines 43-61: countDocuments and the answer.  find returns an  *)
(* array, so the test of line 45 never throws.                             *)
(***************************************************************************)
getUsersCount(s) ==
    /\ inflight[s] # Idle
    /\ inflight[s].op = "list"
    /\ LET r == inflight[s]
           count == countDocuments(users, r.search)
       IN
       /\ inflight' = [inflight EXCEPT ![s] = Idle]
       /\ last' = Step("list", "count", r.req,
                    <<successResponse(200,
                        [users |-> r.users,
                         pagination |-> pagination(count, r.page, r.limit)])>>)
    /\ UNCHANGED <<users, nextId, tokens, outbox, deletedImages, received,
                   now, verified>>

(***************************************************************************)
(* The stores and the queries of the listing.                              *)
(***************************************************************************)
ListNames ==
    <<  <<"J", "o", "h", "n">>,  <<"a", "b", "c">>,
        <<"a", ".", "c">>,       <<"Z", "e", "d">>  >>

\* the i-th account of the roster: not an administrator
Roster(i) ==
    [id |-> i,
     name |-> ListNames[(i % 4) + 1],
     email |-> IF i % 4 = 2 THEN <<"j", "o", "e">> \o Numeral(i) \o <<"@", "x">>
               ELSE <<"u">> \o Numeral(i) \o <<"@", "x">>,
     phone |-> <<"0", "1">> \o Numeral(i),
     password |-> <<"p", "w">>,
     address |-> <<"a", "d">>,
     image |-> NoImage,
     isAdmin |-> FALSE]

\* an administrator whose name, email and phone match what the others match
Admin ==
    [id |-> MaxListUsers + 1, name |-> <<"J", "o", "s", "e", "p", "h">>,
     email |-> <<"a", "b", "c", "@", "x">>, phone |-> <<"0", "1", "0">>,
     password |-> <<"p", "w">>, address |-> <<"a", "d">>, image |-> NoImage,
     isAdmin |-> TRUE]

ListStores ==
    {{Roster(i) : i \in 1 .. n} \cup admins :
        n \in 0 .. MaxListUsers, admins \in {{}, {Admin}}}

\* req.query.search; << >> is the absent parameter (line 29 makes it '')
ListSearches ==
    {<< >>, <<"j", "o">>, <<"A", "B">>, <<"a", ".", "c">>, <<"0", "1", "1">>,
     <<"q">>}

\* req.query.page and req.query.limit; << >> is the absent parameter
ListPages == {<< >>, <<"x">>} \cup {Numeral(n) : n \in 0 .. MaxPage}
ListLimits == {<< >>} \cup {Numeral(n) : n \in 0 .. MaxLimit}

ListQueries ==
    [search : ListSearches, page : ListPages, limit : ListLimits]

\* one listing of a store that nothing else writes to
ListInit ==
    /\ users \in ListStores
    /\ nextId = MaxListUsers + 2
    /\ tokens = {}
    /\ outbox = {}
    /\ deletedImages = [i \in UserIds |-> 0]
    /\ inflight = [s \in Slots |-> Idle]
    /\ received = MaxRequests - 1
    /\ now = 0
    /\ last = Step("none", "none", << >>, << >>)
    /\ verified = {}

ListNext ==
    \/ \E query \in ListQueries : getUsers(query)
    \/ \E s \in Slots : getUsersCount(s)

ListSpec == ListInit /\ [][ListNext]_vars

(***************************************************************************)
(* Vocabulary of the properties.  A step is identified by what it leaves   *)
(* in `last`: the handler, its phase, the request and the responses sent.  *)
(***************************************************************************)
\* the status codes of the responses a step sent, in order
Codes(st) == [i \in 1 .. Len(st.responses) |-> st.responses[i].statusCode]

\* an uploaded image the size check accepts
ValidFile(file) == file # NoFile /\ file.size <= MAX_FILE_SIZE

\* the token carries the signature of its own payload
Genuine(t) == t # NoToken /\ t.sig = Sign(t.payload, JWT_ACTIVATION_KEY)

\* the records of the store with this email
WithEmail(store, e) == {u \in store : u.email = e}

\* the step that ends a verification by creating a record
VerifyCreated(st) ==
    st.op = "verify" /\ st.phase = "create" /\ Codes(st) = <<201>>

(***************************************************************************)
(* C1.  As stated: every registration with an unused email and an image    *)
(* within MAX_FILE_SIZE is answered with success, and an email enters the  *)
(* store only by a verification carrying a valid issued token for it.      *)
(***************************************************************************)
C1_AnsweredWithSuccess(st) ==
    (st.op = "register" /\ ~st.req.userExist /\ ValidFile(st.req.file)
        /\ st.responses # << >>)
        => Codes(st) = <<200>>

C1_EmailEntersByVerify ==
    \A e \in Emails :
        (WithEmail(users, e) = {} /\ WithEmail(users', e) # {})
            => /\ VerifyCreated(last')
               /\ last'.req.token \in tokens
               /\ Genuine(last'.req.token)
               /\ last'.req.at < last'.req.token.payload.exp
               /\ last'.req.token.payload.email = e

C1_Original == [][C1_AnsweredWithSuccess(last') /\ C1_EmailEntersByVerify]_vars

(***************************************************************************)
(* C1, amended: such a registration is suspended at sendEmail and then     *)
(* answered with success (200) when the email is delivered and with 500    *)
(* when it is not; in both cases an email enters the store only by a       *)
(* verification carrying a valid issued token for it.                      *)
(***************************************************************************)
C1_AnsweredByDelivery(st) ==
    (st.op = "register" /\ ~st.req.userExist /\ ValidFile(st.req.file))
        => IF st.phase = "check" THEN st.responses = << >>
           ELSE Codes(st) = IF st.req.delivered THEN <<200>> ELSE <<500>>

C1_Amended == [][C1_AnsweredByDelivery(last') /\ C1_EmailEntersByVerify]_vars

\* a record created by verifying a token that was delivered by email
C1_Witness ==
    /\ VerifyCreated(last)
    /\ \E m \in outbox : m.token = last.req.token
    /\ WithEmail(users, last.req.token.payload.email) # {}

(***************************************************************************)
(* C2.  A verification carrying a valid, unexpired token for an email      *)
(* fails with 409 and leaves the store alone whenever a record with that   *)
(* email exists when its existence check or its create runs, and otherwise *)
(* creates exactly one record: of two verifications racing for an email,   *)
(* the first create succeeds and the second gets 409.                      *)
(***************************************************************************)
C2_VerifyStep ==
    (last'.op = "verify" /\ Genuine(last'.req.token)
        /\ last'.req.at < last'.req.token.payload.exp)
    => LET e == last'.req.token.payload.email
           taken == WithEmail(users, e) # {}
       IN  IF taken
           THEN Codes(last') = <<409>> /\ users' = users
           ELSE IF last'.phase = "check"
           THEN last'.responses = << >> /\ users' = users
           ELSE /\ Codes(last') = <<201>>
                /\ Cardinality(WithEmail(users', e)) = 1
                /\ Cardinality(users') = Cardinality(users) + 1

C2_OneWinner == [][C2_VerifyStep]_vars

\* a verification that passed its existence check and lost the race at create
C2_Witness ==
    /\ last.op = "verify"
    /\ last.phase = "create"
    /\ Codes(last) = <<409>>
    /\ Cardinality(WithEmail(users, last.req.token.payload.email)) = 1

(***************************************************************************)
(* C3.  No two records of the store have the same email.                   *)
(***************************************************************************)
C3_EmailUnique ==
    \A u \in users, v \in users : u.email = v.email => u = v

\* two records are stored and an update that submitted the email of the
\* other record has been applied to one of them
C3_Witness ==
    /\ Cardinality(users) = 2
    /\ last.op = "update"
    /\ last.phase = "write"
    /\ Codes(last) = <<200>>
    /\ "email" \in DOMAIN last.req.body
    /\ getById(users, last.req.id).email # last.req.body.email

(***************************************************************************)
(* C4.  A verification without a token is answered 404, one with a         *)
(* tampered or expired token 401; neither changes the store nor is         *)
(* suspended towards User.create.                                          *)
(***************************************************************************)
C4_VerifyStep ==
    (last'.op = "verify" /\ last'.phase = "check")
    => LET t == last'.req.token IN
       /\ t = NoToken
            => /\ Codes(last') = <<404>>
               /\ UNCHANGED <<users, nextId, inflight>>
       /\ (t # NoToken /\ (~Genuine(t) \/ last'.req.at >= t.payload.exp))
            => /\ Codes(last') = <<401>>
               /\ UNCHANGED <<users, nextId, inflight>>

C4_BadTokenRejected == [][C4_VerifyStep]_vars

\* an issued token presented after its expiry was answered 401
C4_Witness ==
    /\ last.op = "verify"
    /\ last.req.token \in tokens
    /\ last.req.at >= last.req.token.payload.exp
    /\ Codes(last) = <<401>>

(***************************************************************************)
(* C5.  As stated: once a verification with token t has succeeded, every   *)
(* later verification with t fails and creates no record, whatever happens *)
(* in between; and a verification received after t's expiry creates none.  *)
(***************************************************************************)
C5_NoSuccess(st) == \A i \in 1 .. Len(st.responses) : ~st.responses[i].ok

C5_OriginalStep ==
    last'.op = "verify"
    => /\ last'.req.used
            => C5_NoSuccess(last') /\ users' = users
       /\ (last'.req.token \in tokens
                /\ last'.req.at >= last'.req.token.payload.exp)
            => Codes(last') = <<401>> /\ UNCHANGED <<users, inflight>>

C5_Original == [][C5_OriginalStep]_vars

(***************************************************************************)
(* C5, amended: once a verification with token t has succeeded, a later    *)
(* verification with t fails (409, or 401 once t has expired) and creates  *)
(* no record for as long as a record with t's email is in the store; and   *)
(* a verification received after t's expiry is answered 401 and creates    *)
(* none.                                                                   *)
(***************************************************************************)
C5_AmendedStep ==
    last'.op = "verify"
    => /\ (last'.req.used
                /\ WithEmail(users, last'.req.token.payload.email) # {})
            => /\ Codes(last') \in {<<409>>, <<401>>}
               /\ users' = users
       /\ (last'.req.token \in tokens
                /\ last'.req.at >= last'.req.token.payload.exp)
            => Codes(last') = <<401>> /\ UNCHANGED <<users, inflight>>

C5_Amended == [][C5_AmendedStep]_vars

\* a token that has created a record is presented again and answered 409
C5_Witness ==
    /\ last.op = "verify"
    /\ last.req.used
    /\ WithEmail(users, last.req.token.payload.email) # {}
    /\ Codes(last) = <<409>>

(***************************************************************************)
(* C6.  A registration whose email belongs to a stored record is answered  *)
(* 409 at once, with or without an image: no token is issued, no email is  *)
(* sent, the store is unchanged and nothing is suspended.                  *)
(***************************************************************************)
C6_RegisterStep ==
    (last'.op = "register" /\ last'.phase = "check"
        /\ WithEmail(users, last'.req.body.email) # {})
    => /\ Codes(last') = <<409>>
       /\ UNCHANGED <<tokens, outbox, users, nextId, inflight>>

C6_ExistingEmailRejected == [][C6_RegisterStep]_vars

\* a registration with a taken email and an oversized image was answered 409
C6_Witness ==
    /\ last.op = "register"
    /\ last.req.userExist
    /\ last.req.file # NoFile
    /\ last.req.file.size > MAX_FILE_SIZE
    /\ Codes(last) = <<409>>
    /\ tokens = {}

(***************************************************************************)
(* C7.  A registration with an unused email is answered 409 when no image  *)
(* was uploaded and 400 when the image exceeds MAX_FILE_SIZE; in both      *)
(* cases no token is issued, no email is sent and nothing is stored or     *)
(* suspended.                                                              *)
(***************************************************************************)
C7_RegisterStep ==
    (last'.op = "register" /\ last'.phase = "check"
        /\ WithEmail(users, last'.req.body.email) = {}
        /\ ~ValidFile(last'.req.file))
    => /\ Codes(last') = IF last'.req.file = NoFile THEN <<409>> ELSE <<400>>
       /\ UNCHANGED <<tokens, outbox, users, nextId, inflight>>

C7_BadImageRejected == [][C7_RegisterStep]_vars

\* a registration with an unused email and an oversized image was answered 400
C7_Witness ==
    /\ last.op = "register"
    /\ ~last.req.userExist
    /\ last.req.file # NoFile
    /\ last.req.file.size > MAX_FILE_SIZE
    /\ Codes(last) = <<400>>
    /\ tokens = {}

(***************************************************************************)
(* C8.  When sendEmail fails the registration is answered once, with 500,  *)
(* and nothing is stored or delivered; a record is added to the store only *)
(* by a step of verifyUserAccount.                                         *)
(***************************************************************************)
C8_Step ==
    /\ (last'.op = "register" /\ last'.phase = "send"
            /\ ~last'.req.delivered)
        => /\ last'.responses = <<errorResponse(500)>>
           /\ UNCHANGED <<users, nextId, tokens, outbox>>
    /\ ~(Ids(users') \subseteq Ids(users)) => last'.op = "verify"

C8_DispatchFailure == [][C8_Step]_vars

\* a registration answered 500: its token is issued and was not delivered
C8_Witness ==
    /\ last.op = "register"
    /\ last.phase = "send"
    /\ ~last.req.delivered
    /\ Codes(last) = <<500>>
    /\ tokens # {}
    /\ outbox = {}

(***************************************************************************)
(* C9.  The record a successful verification creates has the name, email,  *)
(* phone, password, address and base64 image that were bundled into the    *)
(* token at registration.                                                  *)
(***************************************************************************)
C9_RecordEqualsClaims ==
    VerifyCreated(last)
    => LET p == last.req.token.payload
           u == last.responses[1].payload.user
       IN  /\ u \in users
           /\ u.name = p.name
           /\ u.email = p.email
           /\ u.phone = p.phone
           /\ u.password = p.password
           /\ u.address = p.address
           /\ u.image = p.imageBufferString

(***************************************************************************)
(* C10.  An update leaves every other record alone and changes, in the     *)
(* record it names, only name, password, phone and address (when the body  *)
(* has the key) and image (when a file is uploaded): id, email and isAdmin *)
(* stay as they were whatever the body submits.                            *)
(***************************************************************************)
C10_UpdateStep ==
    last'.op = "update"
    => /\ Ids(users') = Ids(users)
       /\ \A u \in users :
            LET v == getById(users', u.id) IN
            IF u.id # last'.req.id THEN v = u
            ELSE /\ v.email = u.email
                 /\ v.isAdmin = u.isAdmin
                 /\ \A f \in Whitelist :
                        v[f] # u[f] => f \in DOMAIN last'.req.body
                 /\ v.image # u.image => last'.req.file # NoFile

C10_OnlyWhitelisted == [][C10_UpdateStep]_vars

\* an update that submitted another email and isAdmin was applied
C10_Witness ==
    /\ last.op = "update"
    /\ last.phase = "write"
    /\ Codes(last) = <<200>>
    /\ {"email", "isAdmin", "name"} \subseteq DOMAIN last.req.body
    /\ LET u == getById(users, last.req.id) IN
       /\ u.email # last.req.body.email
       /\ u.name = last.req.body.name
       /\ ~u.isAdmin

(***************************************************************************)
(* C11.  A deleteUser request for an id that is not in the store is        *)
(* answered 404 at once: the store is unchanged, deleteImage is not called *)
(* and nothing of the request is left to run later.                        *)
(***************************************************************************)
C11_DeleteStep ==
    (last'.op = "delete" /\ last'.phase = "check"
        /\ last'.req.id \notin Ids(users))
    => /\ Codes(last') = <<404>>
       /\ users' = users
       /\ deletedImages' = deletedImages
       /\ inflight' = inflight

C11_AbsentIdNotFound == [][C11_DeleteStep]_vars

\* a deletion of an id the store never held was answered 404
C11_Witness ==
    /\ last.op = "delete"
    /\ last.phase = "check"
    /\ last.req.id \notin Ids(users)
    /\ last.req.id = nextId
    /\ Codes(last) = <<404>>
    /\ \A i \in UserIds : deletedImages[i] = 0

(***************************************************************************)
(* C12.  A step of updateUser or deleteUser that answers with a failure    *)
(* changes neither the store nor the image deletions, and a step of theirs *)
(* that changes the store belongs to a request answered 200.  An update    *)
(* for an absent id is answered 404 whatever image it carries; an update   *)
(* of a stored id with an image over MAX_FILE_SIZE is answered 400         *)
(* whatever fields it carries, and neither is left to run later.           *)
(***************************************************************************)
C12_Failed(st) == st.responses # << >> /\ ~st.responses[1].ok

C12_Step ==
    last'.op \in {"update", "delete"}
    => /\ C12_Failed(last')
            => /\ users' = users
               /\ deletedImages' = deletedImages
       /\ users' # users
            => \/ Codes(last') = <<200>>
               \/ /\ last'.op = "delete"
                  /\ last'.phase = "delete"
                  /\ \E s \in Slots :
                        /\ inflight[s].op = "delete"
                        /\ inflight'[s].op = "deleted"
       /\ (last'.op = "delete" /\ last'.phase = "respond")
            => Codes(last') = <<200>>
       /\ (last'.op = "update" /\ last'.phase = "check")
            => IF last'.req.id \notin Ids(users)
               THEN Codes(last') = <<404>> /\ inflight' = inflight
               ELSE IF last'.req.file # NoFile
                        /\ last'.req.file.size > MAX_FILE_SIZE
               THEN Codes(last') = <<400>> /\ inflight' = inflight
               ELSE Codes(last') = << >>

C12_FailureLeavesStore == [][C12_Step]_vars

\* an update that named an absent id and carried whitelisted fields and an
\* oversized image was answered 404
C12_Witness ==
    /\ last.op = "update"
    /\ last.phase = "check"
    /\ last.req.id \notin Ids(users)
    /\ last.req.file # NoFile
    /\ last.req.file.size > MAX_FILE_SIZE
    /\ DOMAIN last.req.body \cap Whitelist # {}
    /\ Codes(last) = <<404>>

(***************************************************************************)
(* C13.  deleteUser calls deleteImage only after deleteById has removed    *)
(* the record: the step that removes it calls nothing and leaves the       *)
(* request to resume, and the step that calls deleteImage finds the id     *)
(* absent, passes the image the request read from the record, and answers  *)
(* 200 whether the image was deleted or not.  No step of deleteUser        *)
(* answers with anything but 200 or 404.                                   *)
(***************************************************************************)
C13_DeleteStep ==
    /\ (last'.op = "delete" /\ last'.phase = "delete"
            /\ last'.req.id \in Ids(users))
        => /\ last'.req.id \notin Ids(users')
           /\ deletedImages' = deletedImages
           /\ last'.responses = << >>
           /\ \E s \in Slots : /\ inflight[s].op = "delete"
                               /\ inflight'[s].op = "deleted"
                               /\ inflight'[s].req.id = last'.req.id
    /\ (last'.op = "delete" /\ last'.phase = "respond")
        => /\ Codes(last') = <<200>>
           /\ users' = users
           /\ last'.req.userImagePath # Null
                => /\ last'.req.id \notin Ids(users)
                   /\ \E s \in Slots :
                        /\ inflight[s].op = "deleted"
                        /\ inflight'[s] = Idle
                        /\ inflight[s].deletedUser.id = last'.req.id
                        /\ inflight[s].user.image = last'.req.userImagePath
    /\ deletedImages' # deletedImages
        => /\ last'.op = "delete"
           /\ last'.phase = "respond"
           /\ deletedImages' =
                [deletedImages EXCEPT ![last'.req.id] = @ + 1]
    /\ last'.op = "delete" => Codes(last') \in {<< >>, <<200>>, <<404>>}

C14_Param(q, default, max) ==
    IF q = << >> \/ q = Numeral(0) THEN default
    ELSE CHOOSE n \in 1 .. max : Numeral(n) = q

C14_Min(a, b) == IF a < b THEN a ELSE b
C14_Max(a, b) == IF a > b THEN a ELSE b

C14_ListStep ==
    (last'.op = "list" /\ last'.phase = "count"
        /\ last'.req.page \in {<< >>} \cup {Numeral(n) : n \in 0 .. MaxPage})
    => LET p == C14_Param(last'.req.page, 1, MaxPage)
           l == C14_Param(last'.req.limit, 5, MaxLimit)
           N == Cardinality(Filter(users, last'.req.search))
           total == (N + l - 1) \div l
           payload == last'.responses[1].payload
       IN  /\ Codes(last') = <<200>>
           /\ Len(payload.users) = C14_Min(l, C14_Max(0, N - (p - 1) * l))
           /\ payload.pagination.totalPages = total
           /\ payload.pagination.currentPage = p
           /\ payload.pagination.previousPage =
                    IF p - 1 > 0 THEN {p - 1} ELSE {}
           /\ payload.pagination.nextPage =
                    IF p + 1 <= total THEN {p + 1} ELSE {}

C14_Pagination == [][C14_ListStep]_vars

\* page 3 of 12 accounts under the default limit: 2 records, 3 pages and no
\* next page
C14_Witness ==
    /\ last.op = "list"
    /\ last.phase = "count"
    /\ Cardinality(Filter(users, last.req.search)) = 12
    /\ last.req.limit = << >>
    /\ last.req.page = Numeral(3)
    /\ Len(last.responses[1].payload.users) = 2
    /\ last.responses[1].payload.pagination =
            [totalPages |-> 3, currentPage |-> 3, previousPage |-> {2},
             nextPage |-> {}]

(***************************************************************************)
(* C15.  A listing returns no administrator and no password, and the       *)
(* records it pages over and counts are exactly the non-admin accounts     *)
(* whose name, email or phone contains the search term, letters compared   *)
(* without regard to case; the empty term matches every account.           *)
(***************************************************************************)
\* str contains term, letters compared by their lower case
C15_Contains(term, str) ==
    \E k \in 0 .. (Len(str) - Len(term)) :
        \A i \in 1 .. Len(term) : Lower(term[i]) = Lower(str[k + i])

C15_Matching(store, term) ==
    {u \in store : /\ ~u.isAdmin
                   /\ \/ C15_Contains(term, u.name)
                      \/ C15_Contains(term, u.email)
                      \/ C15_Contains(term, u.phone)}

C15_ListStep ==
    (last'.op = "list" /\ last'.phase = "count")
    => LET p == NumberOr(last'.req.page, 1)
           l == NumberOr(last'.req.limit, 5)
           matching == NaturalOrder(C15_Matching(users, last'.req.search))
           payload == last'.responses[1].payload
           returned == payload.users
       IN  /\ \A i \in 1 .. Len(returned) :
                /\ "password" \notin DOMAIN returned[i]
                /\ ~returned[i].isAdmin
           /\ {returned[i].id : i \in 1 .. Len(returned)} =
                {matching[i].id : i \in {j \in 1 .. Len(matching) :
                                    (p - 1) * l < j /\ j <= p * l}}
           /\ payload.pagination.totalPages = (Len(matching) + l - 1) \div l

C15_ExactlyTheMatching == [][C15_ListStep]_vars

(***************************************************************************)
(* C16.  No stored account is an administrator and no issued token carries *)
(* an isAdmin claim, whatever registrations, verifications, updates and    *)
(* deletions have run.                                                     *)
(***************************************************************************)
C16_NoAdministrator ==
    /\ \A u \in users : ~u.isAdmin
    /\ \A t \in tokens : "isAdmin" \notin DOMAIN t.payload

\* an account created by a verification was updated with a body that asks
\* for isAdmin, and is no administrator
C16_Witness ==
    /\ last.op = "update"
    /\ last.phase = "write"
    /\ Codes(last) = <<200>>
    /\ "isAdmin" \in DOMAIN last.req.body
    /\ last.req.id # SeedUser.id
    /\ \E t \in verified : t.payload.email = getById(users, last.req.id).email
    /\ ~getById(users, last.req.id).isAdmin

(***************************************************************************)
(* C17.  However deleteUser requests for one id interleave, the record is  *)
(* removed once: only the deleteById step of a request for that id removes *)
(* it, and an id the store has given up never comes back.  deleteImage is  *)
(* called at most once for the id, and a request is answered 200 only      *)
(* while the id is absent.  A request whose deleteById finds the id gone   *)
(* changes nothing.                                                        *)
(***************************************************************************)
C17_DeleteStep ==
    /\ \A i \in UserIds :
        /\ (i \in Ids(users) /\ i \notin Ids(users'))
            => /\ last'.op = "delete"
               /\ last'.phase = "delete"
               /\ last'.req.id = i
               /\ users' = users \ {getById(users, i)}
        /\ (i < nextId /\ i \notin Ids(users)) => i \notin Ids(users')
        /\ deletedImages'[i] <= 1
    /\ (last'.op = "delete" /\ Codes(last') = <<200>>)
        => last'.req.id \notin Ids(users')
    /\ (last'.op = "delete" /\ last'.phase = "delete"
            /\ last'.req.id \notin Ids(users))
        => /\ users' = users
           /\ deletedImages' = deletedImages
           /\ Codes(last') \in {<< >>, <<404>>}

C17_RemovedOnce == [][C17_DeleteStep]_vars

\* of two deletions of one id, the second found the record gone after the
\* first had removed it and called deleteImage
C17_Witness ==
    /\ last.op = "delete"
    /\ last.phase = "delete"
    /\ Codes(last) = <<404>>
    /\ last.req.id \notin Ids(users)
    /\ deletedImages[last.req.id] = 1

(***************************************************************************)
(* C18.  updateUser neither creates nor brings back a record: no step of   *)
(* it changes the set of stored ids, and when the id has been deleted      *)
(* since the request's existence check, the write is answered 404 and      *)
(* leaves the store as it is.  An id enters the store only by a step of    *)
(* verifyUserAccount that creates the account.                             *)
(***************************************************************************)
C18_UpdateStep ==
    /\ last'.op = "update" => Ids(users') = Ids(users)
    /\ (last'.op = "update" /\ last'.phase = "write"
            /\ last'.req.id \notin Ids(users))
        => /\ Codes(last') = <<404>>
           /\ users' = users
    /\ ~(Ids(users') \subseteq Ids(users))
        => /\ VerifyCreated(last')
           /\ Cardinality(Ids(users') \ Ids(users)) = 1

C18_NoResurrection == [][C18_UpdateStep]_vars

\* an update passed its existence check, a deletion of the same id then ran
\* to its end, and the write of the update was answered 404
C18_Witness ==
    /\ last.op = "update"
    /\ last.phase = "write"
    /\ Codes(last) = <<404>>
    /\ last.req.id \notin Ids(users)
    /\ deletedImages[last.req.id] = 1
    /\ \A s \in Slots : inflight[s] = Idle

=============================================================================
